---- MODULE Spec2Model ----
(***************************************************************************)
(* A model of colormath/color_objects.py: the color classes, their         *)
(* CONVERSIONS tables, ColorBase.convert_to, has_required_values,          *)
(* get_illuminant_xyz, RGBColor.get_rgb_hex and set_from_rgb_hex,          *)
(* XYZColor.apply_adaptation, ColorBase.delta_e and                        *)
(* LabColor.delta_e_matrix, and convert_to called from several threads.    *)
(*                                                                         *)
(* Python strings are sequences of one-character strings, so that          *)
(* str.lower() and str() are computed and not assumed.  Python values are  *)
(* records [ty, n, s] carrying their Python type.  The transform functions *)
(* of color_conversions and the formulas of color_diff are not part of the *)
(* file modelled here: a call to one of them is kept as a symbolic term.   *)
(***************************************************************************)
EXTENDS Integers, Sequences, FiniteSets, TLC

\* color: the color object the client holds (its class and fields).
\* ret: the latest call on it: its arguments, the object before the call,
\*      what the call returned or raised and the calls it made, in order.
\* calls: the convert_to calls that threads have in progress on color at the
\*      same time, one per thread: where the thread is in convert_to, its
\*      local variables and, once it is done, what its call returned or
\*      raised.  Empty when the client has a single thread.
VARIABLES color, ret, calls

vars == <<color, ret, calls>>

(***************************************************************************)
(* Bounds of the model.                                                    *)
(***************************************************************************)
\* How many of the 50 spectral fields the client assigns (the others keep
\* the constructor's 0.0).
MaxSpectralSet == 2

\* How many times in a row an XYZ color is adapted to another illuminant.
MaxAdaptations == 2

\* How many threads call convert_to on the same color at the same time.
NumThreads == 2

(***************************************************************************)
(* Python values and strings.                                              *)
(***************************************************************************)
PyNone == [ty |-> "NoneType", n |-> 0, s |-> <<>>]

PyInt(k) == [ty |-> "int", n |-> k, s |-> <<>>]

PyFloat(k) == [ty |-> "float", n |-> k, s |-> <<>>]

PyStr(cs) == [ty |-> "str", n |-> 0, s |-> cs]

PyList == [ty |-> "list", n |-> 0, s |-> <<>>]

\* An attribute the class does not define (rgb_type outside the RGB family).
NoAttr == [ty |-> "absent", n |-> 0, s |-> <<>>]

UpperToLower ==
  [A |-> "a", B |-> "b", C |-> "c", D |-> "d", E |-> "e", F |-> "f",
   G |-> "g", H |-> "h", I |-> "i", J |-> "j", K |-> "k", L |-> "l",
   M |-> "m", N |-> "n", O |-> "o", P |-> "p", Q |-> "q", R |-> "r",
   S |-> "s", T |-> "t", U |-> "u", V |-> "v", W |-> "w", X |-> "x",
   Y |-> "y", Z |-> "z"]

\* str.lower() on a string of characters.
Lower(cs) ==
  [i \in 1..Len(cs) |->
     IF cs[i] \in DOMAIN UpperToLower THEN UpperToLower[cs[i]] ELSE cs[i]]

DecDigit == <<"0", "1", "2", "3", "4", "5", "6", "7", "8", "9">>

HexDigit ==
  <<"0", "1", "2", "3", "4", "5", "6", "7", "8", "9",
    "a", "b", "c", "d", "e", "f">>

RECURSIVE Digits(_, _, _)
\* The digits of k >= 0 in the base Len(table), most significant first.
Digits(k, table, acc) ==
  LET base == Len(table)
      acc2 == <<table[(k % base) + 1]>> \o acc
  IN IF k < base THEN acc2 ELSE Digits(k \div base, table, acc2)

\* str(v) for the values an observer field holds.
Str(v) ==
  CASE v.ty = "str" -> v
    [] v.ty = "int" -> PyStr(Digits(v.n, DecDigit, <<>>))
    [] v.ty = "NoneType" -> PyStr(<<"N", "o", "n", "e">>)
    [] OTHER -> PyStr(<<"?">>)

\* '%02x' % k: lowercase hexadecimal, zero-padded to two characters; a
\* negative k prints a minus sign and the digits of -k.
Format02x(k) ==
  LET d == Digits(IF k < 0 THEN 0 - k ELSE k, HexDigit, <<>>)
  IN IF k < 0 THEN <<"-">> \o d
     ELSE IF Len(d) < 2 THEN <<"0">> \o d ELSE d

IsDecDigit(c) == \E i \in 1..Len(DecDigit) : DecDigit[i] = c

\* float(v): "ok", or the exception it raises.  A string is accepted when it
\* is an unsigned decimal literal (digits with at most one point).
FloatOf(v) ==
  CASE v.ty \in {"int", "float"} -> "ok"
    [] v.ty = "str" ->
         IF /\ \E i \in 1..Len(v.s) : IsDecDigit(v.s[i])
            /\ \A i \in 1..Len(v.s) : IsDecDigit(v.s[i]) \/ v.s[i] = "."
            /\ Cardinality({i \in 1..Len(v.s) : v.s[i] = "."}) <= 1
         THEN "ok" ELSE "ValueError"
    [] OTHER -> "TypeError"

(***************************************************************************)
(* Names: the keys of the CONVERSIONS tables, the illuminants, the         *)
(* observers and the delta E modes, as Python strings.                     *)
(***************************************************************************)
k_spectral == <<"s", "p", "e", "c", "t", "r", "a", "l">>
k_xyz == <<"x", "y", "z">>
k_xyy == <<"x", "y", "y">>
k_lab == <<"l", "a", "b">>
k_lch == <<"l", "c", "h">>
k_lchab == <<"l", "c", "h", "a", "b">>
k_lchuv == <<"l", "c", "h", "u", "v">>
k_luv == <<"l", "u", "v">>
k_rgb == <<"r", "g", "b">>
k_hsl == <<"h", "s", "l">>
k_hsv == <<"h", "s", "v">>
k_cmy == <<"c", "m", "y">>
k_cmyk == <<"c", "m", "y", "k">>

s_d50 == <<"d", "5", "0">>
s_D50 == <<"D", "5", "0">>
s_d65 == <<"d", "6", "5">>
s_srgb == <<"s", "r", "g", "b">>
s_sRGB == <<"s", "R", "G", "B">>
s_2 == <<"2">>
s_10 == <<"1", "0">>
s_5 == <<"5">>
s_Abc == <<"A", "b", "c">>
s_LAB == <<"L", "A", "B">>
s_foo == <<"f", "o", "o">>

m_cie2000 == <<"c", "i", "e", "2", "0", "0", "0">>
m_cie1994 == <<"c", "i", "e", "1", "9", "9", "4">>
m_cie1976 == <<"c", "i", "e", "1", "9", "7", "6">>
m_cmc == <<"c", "m", "c">>
m_CMC == <<"C", "M", "C">>
m_ciexyz == <<"c", "i", "e", "x", "y", "z">>

(***************************************************************************)
(* The color classes.                                                      *)
(***************************************************************************)
Classes ==
  {"SpectralColor", "LabColor", "LCHabColor", "LCHuvColor", "LuvColor",
   "XYZColor", "xyYColor", "RGBColor", "HSLColor", "HSVColor", "CMYColor",
   "CMYKColor"}

SpectralVALUES ==
  <<"spec_340nm", "spec_350nm", "spec_360nm", "spec_370nm",
    "spec_380nm", "spec_390nm", "spec_400nm", "spec_410nm",
    "spec_420nm", "spec_430nm", "spec_440nm", "spec_450nm",
    "spec_460nm", "spec_470nm", "spec_480nm", "spec_490nm",
    "spec_500nm", "spec_510nm", "spec_520nm", "spec_530nm",
    "spec_540nm", "spec_550nm", "spec_560nm", "spec_570nm",
    "spec_580nm", "spec_590nm", "spec_600nm", "spec_610nm",
    "spec_620nm", "spec_630nm", "spec_640nm", "spec_650nm",
    "spec_660nm", "spec_670nm", "spec_680nm", "spec_690nm",
    "spec_700nm", "spec_710nm", "spec_720nm", "spec_730nm",
    "spec_740nm", "spec_750nm", "spec_760nm", "spec_770nm",
    "spec_780nm", "spec_790nm", "spec_800nm", "spec_810nm",
    "spec_820nm", "spec_830nm">>

\* The VALUES list of each class: its coordinate fields in declared order.
VALUES ==
  [SpectralColor |-> SpectralVALUES,
   LabColor |-> <<"lab_l", "lab_a", "lab_b">>,
   LCHabColor |-> <<"lch_l", "lch_c", "lch_h">>,
   LCHuvColor |-> <<"lch_l", "lch_c", "lch_h">>,
   LuvColor |-> <<"luv_l", "luv_u", "luv_v">>,
   XYZColor |-> <<"xyz_x", "xyz_y", "xyz_z">>,
   xyYColor |-> <<"xyy_x", "xyy_y", "xyy_Y">>,
   RGBColor |-> <<"rgb_r", "rgb_g", "rgb_b">>,
   HSLColor |-> <<"hsl_h", "hsl_s", "hsl_l">>,
   HSVColor |-> <<"hsv_h", "hsv_s", "hsv_v">>,
   CMYColor |-> <<"cmy_c", "cmy_m", "cmy_y">>,
   CMYKColor |-> <<"cmyk_c", "cmyk_m", "cmyk_y", "cmyk_k">>]

\* The classes whose OTHER_VALUES add rgb_type to illuminant and observer.
RGBFamily == {"RGBColor", "HSLColor", "HSVColor"}

OTHER_VALUES(cls) ==
  IF cls \in RGBFamily
  THEN {"illuminant", "observer", "rgb_type"}
  ELSE {"illuminant", "observer"}

(***************************************************************************)
(* The CONVERSIONS tables: for each class, the conversion path (a list of  *)
(* transform functions, "None" for the identity entry) under each key.     *)
(***************************************************************************)
\* SpectralColor.CONVERSIONS
SpectralColorCONVERSIONS ==
  k_spectral :> <<"None">> @@
  k_xyz :> <<"Spectral_to_XYZ">> @@
  k_xyy :> <<"Spectral_to_XYZ", "XYZ_to_xyY">> @@
  k_lab :> <<"Spectral_to_XYZ", "XYZ_to_Lab">> @@
  k_lch :> <<"Spectral_to_XYZ", "XYZ_to_Lab", "Lab_to_LCHab">> @@
  k_luv :> <<"Spectral_to_XYZ", "XYZ_to_Luv">> @@
  k_rgb :> <<"Spectral_to_XYZ", "XYZ_to_RGB">> @@
  k_hsl :> <<"Spectral_to_XYZ", "XYZ_to_RGB", "RGB_to_HSL">> @@
  k_hsv :> <<"Spectral_to_XYZ", "XYZ_to_RGB", "RGB_to_HSV">> @@
  k_cmy :> <<"Spectral_to_XYZ", "XYZ_to_RGB", "RGB_to_CMY">> @@
  k_cmyk :> <<"Spectral_to_XYZ", "XYZ_to_RGB", "RGB_to_CMY", "CMY_to_CMYK">>

\* LabColor.CONVERSIONS
LabColorCONVERSIONS ==
  k_lab :> <<"None">> @@
  k_xyz :> <<"Lab_to_XYZ">> @@
  k_xyy :> <<"Lab_to_XYZ", "XYZ_to_xyY">> @@
  k_lchab :> <<"Lab_to_LCHab">> @@
  k_lchuv :> <<"Lab_to_XYZ", "XYZ_to_Luv", "Luv_to_LCHuv">> @@
  k_luv :> <<"Lab_to_XYZ", "XYZ_to_Luv">> @@
  k_rgb :> <<"Lab_to_XYZ", "XYZ_to_RGB">> @@
  k_hsl :> <<"Lab_to_XYZ", "XYZ_to_RGB", "RGB_to_HSL">> @@
  k_hsv :> <<"Lab_to_XYZ", "XYZ_to_RGB", "RGB_to_HSV">> @@
  k_cmy :> <<"Lab_to_XYZ", "XYZ_to_RGB", "RGB_to_CMY">> @@
  k_cmyk :> <<"Lab_to_XYZ", "XYZ_to_RGB", "RGB_to_CMY", "CMY_to_CMYK">>

\* LCHabColor.CONVERSIONS
LCHabColorCONVERSIONS ==
  k_lchab :> <<"None">> @@
  k_xyz :> <<"LCHab_to_Lab", "Lab_to_XYZ">> @@
  k_xyy :> <<"LCHab_to_Lab", "Lab_to_XYZ", "XYZ_to_xyY">> @@
  k_lab :> <<"LCHab_to_Lab">> @@
  k_lchuv :> <<"LCHab_to_Lab", "Lab_to_XYZ", "XYZ_to_Luv", "Luv_to_LCHuv">> @@
  k_luv :> <<"LCHab_to_Lab", "Lab_to_XYZ", "XYZ_to_Luv">> @@
  k_rgb :> <<"LCHab_to_Lab", "Lab_to_XYZ", "XYZ_to_RGB">> @@
  k_hsl :> <<"LCHab_to_Lab", "Lab_to_XYZ", "XYZ_to_RGB", "RGB_to_HSL">> @@
  k_hsv :> <<"LCHab_to_Lab", "Lab_to_XYZ", "XYZ_to_RGB", "RGB_to_HSV">> @@
  k_cmy :> <<"LCHab_to_Lab", "Lab_to_XYZ", "XYZ_to_RGB", "RGB_to_CMY">> @@
  k_cmyk :> <<"LCHab_to_Lab", "Lab_to_XYZ", "XYZ_to_RGB", "RGB_to_CMY", "CMY_to_CMYK">>

\* LCHuvColor.CONVERSIONS
LCHuvColorCONVERSIONS ==
  k_lchuv :> <<"None">> @@
  k_xyz :> <<"LCHuv_to_Luv", "Luv_to_XYZ">> @@
  k_xyy :> <<"LCHuv_to_Luv", "Luv_to_XYZ", "XYZ_to_xyY">> @@
  k_lab :> <<"LCHuv_to_Luv", "Luv_to_XYZ", "XYZ_to_Lab">> @@
  k_luv :> <<"LCHuv_to_Luv">> @@
  k_lchab :> <<"LCHuv_to_Luv", "Luv_to_XYZ", "XYZ_to_Lab", "Lab_to_LCHab">> @@
  k_rgb :> <<"LCHuv_to_Luv", "Luv_to_XYZ", "XYZ_to_RGB">> @@
  k_hsl :> <<"LCHuv_to_Luv", "Luv_to_XYZ", "XYZ_to_RGB", "RGB_to_HSL">> @@
  k_hsv :> <<"LCHuv_to_Luv", "Luv_to_XYZ", "XYZ_to_RGB", "RGB_to_HSV">> @@
  k_cmy :> <<"LCHuv_to_Luv", "Luv_to_XYZ", "XYZ_to_RGB", "RGB_to_CMY">> @@
  k_cmyk :> <<"LCHuv_to_Luv", "Luv_to_XYZ", "XYZ_to_RGB", "RGB_to_CMY", "CMY_to_CMYK">>

\* LuvColor.CONVERSIONS
LuvColorCONVERSIONS ==
  k_luv :> <<"None">> @@
  k_xyz :> <<"Luv_to_XYZ">> @@
  k_xyy :> <<"Luv_to_XYZ", "XYZ_to_xyY">> @@
  k_lab :> <<"Luv_to_XYZ", "XYZ_to_Lab">> @@
  k_lchab :> <<"Luv_to_XYZ", "XYZ_to_Lab", "Lab_to_LCHab">> @@
  k_lchuv :> <<"Luv_to_LCHuv">> @@
  k_rgb :> <<"Luv_to_XYZ", "XYZ_to_RGB">> @@
  k_hsl :> <<"Luv_to_XYZ", "XYZ_to_RGB", "RGB_to_HSL">> @@
  k_hsv :> <<"Luv_to_XYZ", "XYZ_to_RGB", "RGB_to_HSV">> @@
  k_cmy :> <<"Luv_to_XYZ", "XYZ_to_RGB", "RGB_to_CMY">> @@
  k_cmyk :> <<"Luv_to_XYZ", "XYZ_to_RGB", "RGB_to_CMY", "CMY_to_CMYK">>

\* XYZColor.CONVERSIONS
XYZColorCONVERSIONS ==
  k_xyz :> <<"None">> @@
  k_xyy :> <<"XYZ_to_xyY">> @@
  k_lab :> <<"XYZ_to_Lab">> @@
  k_lchab :> <<"XYZ_to_Lab", "Lab_to_LCHab">> @@
  k_lchuv :> <<"XYZ_to_Lab", "Luv_to_LCHuv">> @@
  k_luv :> <<"XYZ_to_Luv">> @@
  k_rgb :> <<"XYZ_to_RGB">> @@
  k_hsl :> <<"XYZ_to_RGB", "RGB_to_HSL">> @@
  k_hsv :> <<"XYZ_to_RGB", "RGB_to_HSV">> @@
  k_cmy :> <<"XYZ_to_RGB", "RGB_to_CMY">> @@
  k_cmyk :> <<"XYZ_to_RGB", "RGB_to_CMY", "CMY_to_CMYK">>

\* xyYColor.CONVERSIONS
xyYColorCONVERSIONS ==
  k_xyy :> <<"None">> @@
  k_xyz :> <<"xyY_to_XYZ">> @@
  k_lab :> <<"xyY_to_XYZ", "XYZ_to_Lab">> @@
  k_lchab :> <<"xyY_to_XYZ", "XYZ_to_Lab", "Lab_to_LCHab">> @@
  k_lchuv :> <<"xyY_to_XYZ", "XYZ_to_Luv", "Luv_to_LCHuv">> @@
  k_luv :> <<"xyY_to_XYZ", "XYZ_to_Luv">> @@
  k_rgb :> <<"xyY_to_XYZ", "XYZ_to_RGB">> @@
  k_hsl :> <<"xyY_to_XYZ", "XYZ_to_RGB", "RGB_to_HSL">> @@
  k_hsv :> <<"xyY_to_XYZ", "XYZ_to_RGB", "RGB_to_HSV">> @@
  k_cmy :> <<"xyY_to_XYZ", "XYZ_to_RGB", "RGB_to_CMY">> @@
  k_cmyk :> <<"xyY_to_XYZ", "XYZ_to_RGB", "RGB_to_CMY", "CMY_to_CMYK">>

\* RGBColor.CONVERSIONS
RGBColorCONVERSIONS ==
  k_rgb :> <<"None">> @@
  k_hsl :> <<"RGB_to_HSL">> @@
  k_hsv :> <<"RGB_to_HSV">> @@
  k_cmy :> <<"RGB_to_CMY">> @@
  k_cmyk :> <<"RGB_to_CMY", "CMY_to_CMYK">> @@
  k_xyz :> <<"RGB_to_XYZ">> @@
  k_xyy :> <<"RGB_to_XYZ", "XYZ_to_xyY">> @@
  k_lab :> <<"RGB_to_XYZ", "XYZ_to_Lab">> @@
  k_lchab :> <<"RGB_to_XYZ", "XYZ_to_Lab", "Lab_to_LCHab">> @@
  k_lchuv :> <<"RGB_to_XYZ", "XYZ_to_Luv", "Luv_to_LCHuv">> @@
  k_luv :> <<"RGB_to_XYZ", "XYZ_to_Luv">>

\* HSLColor.CONVERSIONS
HSLColorCONVERSIONS ==
  k_hsl :> <<"None">> @@
  k_hsv :> <<"HSL_to_RGB", "RGB_to_HSV">> @@
  k_rgb :> <<"HSL_to_RGB">> @@
  k_cmy :> <<"HSL_to_RGB", "RGB_to_CMY">> @@
  k_cmyk :> <<"HSL_to_RGB", "RGB_to_CMY", "CMY_to_CMYK">> @@
  k_xyz :> <<"HSL_to_RGB", "RGB_to_XYZ">> @@
  k_xyy :> <<"HSL_to_RGB", "RGB_to_XYZ", "XYZ_to_xyY">> @@
  k_lab :> <<"HSL_to_RGB", "RGB_to_XYZ", "XYZ_to_Lab">> @@
  k_lchab :> <<"HSL_to_RGB", "RGB_to_XYZ", "XYZ_to_Lab", "Lab_to_LCHab">> @@
  k_lchuv :> <<"HSL_to_RGB", "RGB_to_XYZ", "XYZ_to_Luv", "Luv_to_LCHuv">> @@
  k_luv :> <<"HSL_to_RGB", "RGB_to_XYZ", "XYZ_to_RGB">>

\* HSVColor.CONVERSIONS
HSVColorCONVERSIONS ==
  k_hsv :> <<"None">> @@
  k_hsl :> <<"HSV_to_RGB", "RGB_to_HSL">> @@
  k_rgb :> <<"HSV_to_RGB">> @@
  k_cmy :> <<"HSV_to_RGB", "RGB_to_CMY">> @@
  k_cmyk :> <<"HSV_to_RGB", "RGB_to_CMY", "CMY_to_CMYK">> @@
  k_xyz :> <<"HSV_to_RGB", "RGB_to_XYZ">> @@
  k_xyy :> <<"HSV_to_RGB", "RGB_to_XYZ", "XYZ_to_xyY">> @@
  k_lab :> <<"HSV_to_RGB", "RGB_to_XYZ", "XYZ_to_Lab">> @@
  k_lchab :> <<"HSV_to_RGB", "RGB_to_XYZ", "XYZ_to_Lab", "Lab_to_LCHab">> @@
  k_lchuv :> <<"HSV_to_RGB", "RGB_to_XYZ", "XYZ_to_Luv", "Luv_to_LCHuv">> @@
  k_luv :> <<"HSV_to_RGB", "RGB_to_XYZ", "XYZ_to_RGB">>

\* CMYColor.CONVERSIONS
CMYColorCONVERSIONS ==
  k_cmy :> <<"None">> @@
  k_cmyk :> <<"CMY_to_CMYK">> @@
  k_hsl :> <<"CMY_to_RGB", "RGB_to_HSL">> @@
  k_hsv :> <<"CMY_to_RGB", "RGB_to_HSV">> @@
  k_rgb :> <<"CMY_to_RGB">> @@
  k_xyz :> <<"CMY_to_RGB", "RGB_to_XYZ">> @@
  k_xyy :> <<"CMY_to_RGB", "RGB_to_XYZ", "XYZ_to_xyY">> @@
  k_lab :> <<"CMY_to_RGB", "RGB_to_XYZ", "XYZ_to_Lab">> @@
  k_lchab :> <<"CMY_to_RGB", "RGB_to_XYZ", "XYZ_to_Lab", "Lab_to_LCHab">> @@
  k_lchuv :> <<"CMY_to_RGB", "RGB_to_XYZ", "XYZ_to_Luv", "Luv_to_LCHuv">> @@
  k_luv :> <<"CMY_to_RGB", "RGB_to_XYZ", "XYZ_to_RGB">>

\* CMYKColor.CONVERSIONS
CMYKColorCONVERSIONS ==
  k_cmyk :> <<"None">> @@
  k_cmy :> <<"CMYK_to_CMY">> @@
  k_hsl :> <<"CMYK_to_CMY", "CMY_to_RGB", "RGB_to_HSL">> @@
  k_hsv :> <<"CMYK_to_CMY", "CMY_to_RGB", "RGB_to_HSV">> @@
  k_rgb :> <<"CMYK_to_CMY", "CMY_to_RGB">> @@
  k_xyz :> <<"CMYK_to_CMY", "CMY_to_RGB", "RGB_to_XYZ">> @@
  k_xyy :> <<"CMYK_to_CMY", "CMY_to_RGB", "RGB_to_XYZ", "XYZ_to_xyY">> @@
  k_lab :> <<"CMYK_to_CMY", "CMY_to_RGB", "RGB_to_XYZ", "XYZ_to_Lab">> @@
  k_lchab :> <<"CMYK_to_CMY", "CMY_to_RGB", "RGB_to_XYZ", "XYZ_to_Lab", "Lab_to_LCHab">> @@
  k_lchuv :> <<"CMYK_to_CMY", "CMY_to_RGB", "RGB_to_XYZ", "XYZ_to_Luv", "Luv_to_LCHuv">> @@
  k_luv :> <<"CMYK_to_CMY", "CMY_to_RGB", "RGB_to_XYZ", "XYZ_to_RGB">>

CONVERSIONS ==
  [SpectralColor |-> SpectralColorCONVERSIONS,
   LabColor |-> LabColorCONVERSIONS,
   LCHabColor |-> LCHabColorCONVERSIONS,
   LCHuvColor |-> LCHuvColorCONVERSIONS,
   LuvColor |-> LuvColorCONVERSIONS,
   XYZColor |-> XYZColorCONVERSIONS,
   xyYColor |-> xyYColorCONVERSIONS,
   RGBColor |-> RGBColorCONVERSIONS,
   HSLColor |-> HSLColorCONVERSIONS,
   HSVColor |-> HSVColorCONVERSIONS,
   CMYColor |-> CMYColorCONVERSIONS,
   CMYKColor |-> CMYKColorCONVERSIONS]

\* The transform functions of color_conversions the tables name: the class
\* each one reads its argument as, and the class of the color it returns.
TransformSig ==
  [Spectral_to_XYZ |-> [in |-> "SpectralColor", out |-> "XYZColor"],
   Lab_to_LCHab |-> [in |-> "LabColor", out |-> "LCHabColor"],
   Lab_to_XYZ |-> [in |-> "LabColor", out |-> "XYZColor"],
   Luv_to_LCHuv |-> [in |-> "LuvColor", out |-> "LCHuvColor"],
   Luv_to_XYZ |-> [in |-> "LuvColor", out |-> "XYZColor"],
   LCHab_to_Lab |-> [in |-> "LCHabColor", out |-> "LabColor"],
   LCHuv_to_Luv |-> [in |-> "LCHuvColor", out |-> "LuvColor"],
   xyY_to_XYZ |-> [in |-> "xyYColor", out |-> "XYZColor"],
   XYZ_to_xyY |-> [in |-> "XYZColor", out |-> "xyYColor"],
   XYZ_to_Luv |-> [in |-> "XYZColor", out |-> "LuvColor"],
   XYZ_to_Lab |-> [in |-> "XYZColor", out |-> "LabColor"],
   XYZ_to_RGB |-> [in |-> "XYZColor", out |-> "RGBColor"],
   RGB_to_XYZ |-> [in |-> "RGBColor", out |-> "XYZColor"],
   RGB_to_HSV |-> [in |-> "RGBColor", out |-> "HSVColor"],
   RGB_to_HSL |-> [in |-> "RGBColor", out |-> "HSLColor"],
   HSV_to_RGB |-> [in |-> "HSVColor", out |-> "RGBColor"],
   HSL_to_RGB |-> [in |-> "HSLColor", out |-> "RGBColor"],
   RGB_to_CMY |-> [in |-> "RGBColor", out |-> "CMYColor"],
   CMY_to_RGB |-> [in |-> "CMYColor", out |-> "RGBColor"],
   CMY_to_CMYK |-> [in |-> "CMYColor", out |-> "CMYKColor"],
   CMYK_to_CMY |-> [in |-> "CMYKColor", out |-> "CMYColor"]]

(***************************************************************************)
(* Construction and attribute assignment.                                  *)
(***************************************************************************)
\* __init__: illuminant 'd50', observer '2', every coordinate None (0.0 for
\* the spectral fields), rgb_type 'srgb' in the RGB family.
Construct(cls) ==
  [cls |-> cls,
   vals |-> [i \in 1..Len(VALUES[cls]) |->
               IF cls = "SpectralColor" THEN PyFloat(0) ELSE PyNone],
   illuminant |-> PyStr(s_d50),
   observer |-> PyStr(s_2),
   rgb_type |-> IF cls \in RGBFamily THEN PyStr(s_srgb) ELSE NoAttr]

FieldNames(cls) == {VALUES[cls][i] : i \in 1..Len(VALUES[cls])}

FieldIndex(cls, key) == CHOOSE i \in 1..Len(VALUES[cls]) : VALUES[cls][i] = key

\* setattr(obj, key, val) for a coordinate field or a tag.
SetField(obj, key, val) ==
  CASE key = "illuminant" -> [obj EXCEPT !.illuminant = val]
    [] key = "observer" -> [obj EXCEPT !.observer = val]
    [] key = "rgb_type" -> [obj EXCEPT !.rgb_type = val]
    [] OTHER -> [obj EXCEPT !.vals[FieldIndex(obj.cls, key)] = val]

\* _transfer_kwargs: positional arguments go to the first fields of VALUES;
\* a keyword that names a field of VALUES or OTHER_VALUES is assigned,
\* lowercased when it is a string.  kwargs is a function from keyword names.
transfer_kwargs(obj, args, kwargs) ==
  LET cls == obj.cls
      lowered(v) == IF v.ty = "str" THEN PyStr(Lower(v.s)) ELSE v
      kw(key, old) ==
        IF key \in DOMAIN kwargs /\ key \in FieldNames(cls) \cup OTHER_VALUES(cls)
        THEN lowered(kwargs[key]) ELSE old
  IN [cls |-> cls,
      vals |-> [i \in 1..Len(VALUES[cls]) |->
                  kw(VALUES[cls][i],
                     IF i <= Len(args) THEN args[i] ELSE obj.vals[i])],
      illuminant |-> kw("illuminant", obj.illuminant),
      observer |-> kw("observer", obj.observer),
      rgb_type |-> kw("rgb_type", obj.rgb_type)]

\* cls(*args, **kwargs)
New(cls, args, kwargs) == transfer_kwargs(Construct(cls), args, kwargs)

(***************************************************************************)
(* The outcome of a call: what it returned or raised, the calls it made in *)
(* order, and the object it was called on as the call leaves it.           *)
(***************************************************************************)
Returned(value, trace, self) ==
  [outcome |-> "returned", err |-> [name |-> "", value |-> PyNone],
   value |-> value, trace |-> trace, self |-> self]

Raised(exc, name, value, trace, self) ==
  [outcome |-> exc, err |-> [name |-> name, value |-> value],
   value |-> PyNone, trace |-> trace, self |-> self]

(***************************************************************************)
(* ColorBase.has_required_values                                           *)
(***************************************************************************)
RECURSIVE check_values_reversed(_, _)
\* (variant) the loop over VALUES run from the last field to the first
check_values_reversed(obj, i) ==
  LET j == Len(VALUES[obj.cls]) + 1 - i
  IN IF i > Len(VALUES[obj.cls]) THEN [outcome |-> "ok"]
     ELSE IF obj.vals[j] = PyNone
          THEN [outcome |-> "MissingValue", name |-> VALUES[obj.cls][j], value |-> PyNone]
          ELSE IF FloatOf(obj.vals[j]) = "ValueError"
               THEN [outcome |-> "InvalidValue", name |-> VALUES[obj.cls][j],
                     value |-> obj.vals[j]]
               ELSE IF FloatOf(obj.vals[j]) = "TypeError"
                    THEN [outcome |-> "TypeError", name |-> "float", value |-> obj.vals[j]]
                    ELSE check_values_reversed(obj, i + 1)

RECURSIVE check_values_from(_, _)
\* The loop over VALUES from field i on: the first field that is None
\* raises MissingValue; float(value) raising ValueError becomes
\* InvalidValue; any other exception of float() is not caught.
check_values_from(obj, i) ==
  IF i > Len(VALUES[obj.cls]) THEN [outcome |-> "ok"]
  ELSE IF obj.vals[i] = PyNone
       THEN [outcome |-> "MissingValue", name |-> VALUES[obj.cls][i], value |-> PyNone]
       ELSE IF FloatOf(obj.vals[i]) = "ValueError"
            THEN [outcome |-> "InvalidValue", name |-> VALUES[obj.cls][i],
                  value |-> obj.vals[i]]
            ELSE IF FloatOf(obj.vals[i]) = "TypeError"
                 THEN [outcome |-> "TypeError", name |-> "float", value |-> obj.vals[i]]
                 ELSE check_values_from(obj, i + 1)

\* (variant) the fields checked last to first
check_values_last_first(obj) == check_values_reversed(obj, 1)

\* for val in self.VALUES: ...
check_values(obj) == check_values_from(obj, 1)

\* self.observer in ['2', '10']: Python compares with ==, and no int equals
\* a string.
observer_in_list(obj) ==
  obj.observer.ty = "str" /\ obj.observer.s \in {s_2, s_10}

has_required_values(obj) ==
  IF ~observer_in_list(obj)
  THEN [outcome |-> "InvalidObserver", name |-> "", value |-> obj.observer]
  ELSE check_values(obj)

(***************************************************************************)
(* ColorBase.__prep_strings and ColorBase.convert_to                       *)
(***************************************************************************)
\* (variant) every string attribute is lowercased, the coordinates included
prep_strings_all_attributes(self) ==
  [self EXCEPT !.illuminant = PyStr(Lower(self.illuminant.s)),
               !.observer = Str(self.observer),
               !.vals = [i \in 1..Len(self.vals) |->
                           IF self.vals[i].ty = "str"
                           THEN PyStr(Lower(self.vals[i].s)) ELSE self.vals[i]]]

\* self.illuminant = self.illuminant.lower(); self.observer = str(self.observer)
prep_strings(self) ==
  [self EXCEPT !.illuminant = PyStr(Lower(self.illuminant.s)),
               !.observer = Str(self.observer)]

\* func(cobj, *args, **kwargs) for a transform of color_conversions: the
\* function reads the fields of the class it converts from and returns a new
\* color of the class it converts to.  The returned color is kept as a term:
\* the color the chain started from and the functions applied to it.
call_transform(func, cobj, kwargs) ==
  IF func = "None"
  THEN [outcome |-> "TypeError", cobj |-> cobj]
  ELSE IF cobj.cls # TransformSig[func].in
       THEN [outcome |-> "AttributeError", cobj |-> cobj]
       ELSE [outcome |-> "ok",
             cobj |-> [cls |-> TransformSig[func].out, same |-> FALSE,
                       src |-> cobj.src,
                       via |-> Append(cobj.via, [fn |-> func, kw |-> kwargs])]]

\* (variant) the loop body without its "if func:" guard
conversion_step_unguarded(func, cobj, kwargs) ==
  [called |-> TRUE] @@ call_transform(func, cobj, kwargs)

\* The body of the loop over the conversion path: a None entry is skipped.
conversion_step(func, cobj, kwargs) ==
  IF func # "None"
  THEN [called |-> TRUE] @@ call_transform(func, cobj, kwargs)
  ELSE [called |-> FALSE, outcome |-> "ok", cobj |-> cobj]

RECURSIVE run_conversions(_, _, _, _, _, _)
\* for func in conversions: ...; return cobj
run_conversions(conversions, i, cobj, kwargs, trace, self) ==
  IF i > Len(conversions) THEN Returned(cobj, trace, self)
  ELSE LET step == conversion_step(conversions[i], cobj, kwargs)
           trace2 == IF step.called THEN Append(trace, conversions[i]) ELSE trace
       IN IF step.outcome # "ok"
          THEN Raised(step.outcome, conversions[i], PyNone, trace2, self)
          ELSE run_conversions(conversions, i + 1, step.cobj, kwargs, trace2, self)

\* cobj = self: the object itself, before any transform.
SelfTerm(self) == [cls |-> self.cls, same |-> TRUE, src |-> self, via |-> <<>>]

\* (variant) the object prepared and validated before the path is looked up
convert_to_validating_first(self, cs_to, kwargs) ==
  LET prepped == prep_strings(self)
      chk == has_required_values(prepped)
      checked == <<"prep_strings", "has_required_values">>
  IN IF chk.outcome # "ok"
     THEN Raised(chk.outcome, chk.name, chk.value, checked, prepped)
     ELSE IF Lower(cs_to) \notin DOMAIN CONVERSIONS[self.cls]
          THEN Raised("InvalidConversion", self.cls, PyStr(cs_to), checked, prepped)
          ELSE run_conversions(CONVERSIONS[self.cls][Lower(cs_to)], 1,
                               SelfTerm(prepped), kwargs, checked, prepped)

convert_to(self, cs_to, kwargs) ==
  IF Lower(cs_to) \notin DOMAIN CONVERSIONS[self.cls]
  THEN Raised("InvalidConversion", self.cls, PyStr(cs_to), <<>>, self)
  ELSE LET prepped == prep_strings(self)
           chk == has_required_values(prepped)
           checked == <<"prep_strings", "has_required_values">>
       IN IF chk.outcome # "ok"
          THEN Raised(chk.outcome, chk.name, chk.value, checked, prepped)
          ELSE run_conversions(CONVERSIONS[self.cls][Lower(cs_to)], 1,
                               SelfTerm(prepped), kwargs, checked, prepped)

(***************************************************************************)
(* RGBColor.get_rgb_hex                                                    *)
(***************************************************************************)
\* '#%02x%02x%02x' % (r, g, b): %x takes integers only.
get_rgb_hex(self) ==
  LET chk == has_required_values(self)
      checked == <<"has_required_values">>
  IN IF chk.outcome # "ok"
     THEN Raised(chk.outcome, chk.name, chk.value, checked, self)
     ELSE IF \E i \in 1..Len(self.vals) : self.vals[i].ty # "int"
          THEN Raised("TypeError", "%x", PyNone, checked, self)
          ELSE Returned(PyStr(<<"#">> \o Format02x(self.vals[1].n)
                                      \o Format02x(self.vals[2].n)
                                      \o Format02x(self.vals[3].n)),
                        checked, self)

(***************************************************************************)
(* ColorBase.get_illuminant_xyz and XYZColor.apply_adaptation              *)
(***************************************************************************)
\* color_constants.ILLUMINANTS: for each observer angle, the illuminants it
\* has a white point for; every key is a lowercase string.
ILLUMINANTS == [obs \in {s_2, s_10} |-> {s_d50, s_d65}]

\* The white point found under ILLUMINANTS[observer][illuminant], kept as
\* the keys it was found under.
WhitePoint(observer, illuminant) ==
  [table |-> "ILLUMINANTS", observer |-> observer, illuminant |-> illuminant]

\* observer and illuminant default to the color's own fields, taken as they
\* are; a missing observer key raises InvalidObserver, a missing illuminant
\* key InvalidIlluminant.
get_illuminant_xyz(self, observer, illuminant) ==
  LET obs == IF observer = PyNone THEN self.observer ELSE observer
      ill == IF illuminant = PyNone THEN self.illuminant ELSE illuminant
  IN IF ~(obs.ty = "str" /\ obs.s \in DOMAIN ILLUMINANTS)
     THEN Raised("InvalidObserver", "", obs, <<>>, self)
     ELSE IF ~(ill.ty = "str" /\ ill.s \in ILLUMINANTS[obs.s])
          THEN Raised("InvalidIlluminant", "", ill, <<"ILLUMINANTS">>, self)
          ELSE Returned(WhitePoint(obs, ill), <<"ILLUMINANTS">>, self)

\* One coordinate returned by color_conversions.apply_XYZ_transformation:
\* the number adapted, with the illuminants it was adapted from and to
\* written after it.
Adapted(v, orig_illum, targ_illum) ==
  [ty |-> "float", n |-> v.n,
   s |-> v.s \o <<"|">> \o orig_illum \o <<">">> \o targ_illum]

apply_XYZ_transformation(x, y, z, orig_illum, targ_illum) ==
  <<Adapted(x, orig_illum, targ_illum), Adapted(y, orig_illum, targ_illum),
    Adapted(z, orig_illum, targ_illum)>>

\* if source_illuminant != target_illuminant: the two strings compared as
\* they are; then the three coordinates are replaced and the illuminant is
\* set to the lowercased target.
apply_adaptation(self, target_illuminant) ==
  LET source_illuminant == self.illuminant.s
  IN IF source_illuminant # target_illuminant
     THEN Returned(PyNone, <<"color_conversions.apply_XYZ_transformation">>,
                   [self EXCEPT
                      !.vals = apply_XYZ_transformation(
                                 self.vals[1], self.vals[2], self.vals[3],
                                 source_illuminant, target_illuminant),
                      !.illuminant = PyStr(Lower(target_illuminant))])
     ELSE Returned(PyNone, <<>>, self)

(***************************************************************************)
(* RGBColor.set_from_rgb_hex                                               *)
(***************************************************************************)
\* The characters str.strip() and int() take for white space.
Whitespace == {" ", "\t", "\n"}

RECURSIVE LStrip(_)
LStrip(cs) ==
  IF cs # <<>> /\ Head(cs) \in Whitespace THEN LStrip(Tail(cs)) ELSE cs

RECURSIVE RStrip(_)
RStrip(cs) ==
  IF cs # <<>> /\ cs[Len(cs)] \in Whitespace
  THEN RStrip(SubSeq(cs, 1, Len(cs) - 1)) ELSE cs

\* str.strip()
Strip(cs) == RStrip(LStrip(cs))

\* The value of a hexadecimal digit in either case, -1 for any other
\* character.
HexValue(c) ==
  LET lc == Lower(<<c>>)[1]
  IN IF \E i \in 1..Len(HexDigit) : HexDigit[i] = lc
     THEN (CHOOSE i \in 1..Len(HexDigit) : HexDigit[i] = lc) - 1
     ELSE 0 - 1

RECURSIVE HexNumber(_, _)
\* The number a string of hexadecimal digits denotes, after acc.
HexNumber(ds, acc) ==
  IF ds = <<>> THEN acc ELSE HexNumber(Tail(ds), 16 * acc + HexValue(Head(ds)))

\* int(cs, 16): white space around the literal is dropped, then an optional
\* sign, an optional 0x or 0X, and one or more hexadecimal digits; anything
\* else is a ValueError.  (The digit separator "_" needs a digit on either
\* side and the prefix 0x a digit after it; the literals converted here have
\* at most two characters, where neither fits with a sign.)
IntBase16(cs) ==
  LET t == Strip(cs)
      signed == t # <<>> /\ t[1] \in {"+", "-"}
      u == IF signed THEN Tail(t) ELSE t
      prefixed == Len(u) >= 2 /\ u[1] = "0" /\ u[2] \in {"x", "X"}
      ds == IF prefixed THEN SubSeq(u, 3, Len(u)) ELSE u
  IN IF ds # <<>> /\ \A i \in 1..Len(ds) : HexValue(ds[i]) >= 0
     THEN [outcome |-> "ok",
           n |-> IF signed /\ t[1] = "-" THEN 0 - HexNumber(ds, 0)
                 ELSE HexNumber(ds, 0)]
     ELSE [outcome |-> "ValueError", n |-> 0]

\* colorstring = hex_str.strip(); colorstring[0] raises IndexError on an
\* empty string; a leading '#' is dropped; a length other than 6 raises
\* ValueError; the three slices are converted with int(n, 16), which raises
\* ValueError itself; only then are the three channels assigned.
set_from_rgb_hex(self, hex_str) ==
  LET stripped == Strip(hex_str)
  IN IF stripped = <<>>
     THEN Raised("IndexError", "colorstring[0]", PyNone, <<>>, self)
     ELSE LET colorstring ==
                IF stripped[1] = "#" THEN Tail(stripped) ELSE stripped
              r == IntBase16(SubSeq(colorstring, 1, 2))
              g == IntBase16(SubSeq(colorstring, 3, 4))
              b == IntBase16(SubSeq(colorstring, 5, Len(colorstring)))
          IN IF Len(colorstring) # 6
             THEN Raised("ValueError", "not in #RRGGBB format",
                         PyStr(colorstring), <<>>, self)
             ELSE IF r.outcome # "ok" \/ g.outcome # "ok" \/ b.outcome # "ok"
                  THEN Raised("ValueError", "invalid literal for int()",
                              PyNone, <<>>, self)
                  ELSE Returned(PyNone, <<>>,
                                [self EXCEPT !.vals = <<PyInt(r.n), PyInt(g.n),
                                                       PyInt(b.n)>>])

(***************************************************************************)
(* ColorBase.delta_e and LabColor.delta_e_matrix                           *)
(***************************************************************************)
\* isinstance(x, ColorBase): a color is a record with a class.
IsColor(x) == "cls" \in DOMAIN x

\* A call of a formula of color_diff or color_diff_matrix, kept as a term:
\* the function, its two positional arguments, the keywords passed on.
FormulaCall(fn, a1, a2, kw) == [fn |-> fn, a1 |-> a1, a2 |-> a2, kw |-> kw]

\* (variant) the formula called with other_color's Lab first
dispatch_delta_e_swapped(mode, lab1, lab2, kwargs, trace, self) ==
  LET m == Lower(mode)
      call(fn, kw) ==
        Returned(FormulaCall(fn, lab2, lab1, kw), Append(trace, fn), self)
  IN CASE m = m_cie2000 -> call("color_diff.delta_e_cie2000", {})
       [] m = m_cie1994 -> call("color_diff.delta_e_cie1994", kwargs)
       [] m = m_cie1976 -> call("color_diff.delta_e_cie1976", {})
       [] m = m_cmc -> call("color_diff.delta_e_cmc", kwargs)
       [] OTHER -> Raised("InvalidDeltaEMode", "", PyStr(m), trace, self)

\* mode = mode.lower() and the if/elif chain on it: cie2000 and cie1976
\* are called with the two Lab colors alone, cie1994 and cmc with **kwargs.
dispatch_delta_e(mode, lab1, lab2, kwargs, trace, self) ==
  LET m == Lower(mode)
      call(fn, kw) ==
        Returned(FormulaCall(fn, lab1, lab2, kw), Append(trace, fn), self)
  IN CASE m = m_cie2000 -> call("color_diff.delta_e_cie2000", {})
       [] m = m_cie1994 -> call("color_diff.delta_e_cie1994", kwargs)
       [] m = m_cie1976 -> call("color_diff.delta_e_cie1976", {})
       [] m = m_cmc -> call("color_diff.delta_e_cmc", kwargs)
       [] OTHER -> Raised("InvalidDeltaEMode", "", PyStr(m), trace, self)

\* (variant) self converted to Lab before other_color is looked at
delta_e_converting_first(self, other_color, mode, kwargs) ==
  LET r1 == convert_to(self, k_lab, kwargs)
      t1 == <<"self.convert_to">> \o r1.trace
  IN IF r1.outcome # "returned"
     THEN [r1 EXCEPT !.trace = t1]
     ELSE IF ~IsColor(other_color)
          THEN Raised("InvalidArgument", "other_color", PyNone, t1, r1.self)
          ELSE LET r2 == convert_to(other_color, k_lab, kwargs)
                   t2 == t1 \o <<"other_color.convert_to">> \o r2.trace
               IN IF r2.outcome # "returned"
                  THEN [r2 EXCEPT !.trace = t2, !.self = r1.self]
                  ELSE dispatch_delta_e(mode, r1.value, r2.value, kwargs, t2, r1.self)

\* The isinstance check, then self and other_color converted to Lab in that
\* order, then the mode.
delta_e(self, other_color, mode, kwargs) ==
  IF ~IsColor(other_color)
  THEN Raised("InvalidArgument", "other_color", PyNone, <<>>, self)
  ELSE LET r1 == convert_to(self, k_lab, kwargs)
           t1 == <<"self.convert_to">> \o r1.trace
       IN IF r1.outcome # "returned"
          THEN [r1 EXCEPT !.trace = t1]
          ELSE LET r2 == convert_to(other_color, k_lab, kwargs)
                   t2 == t1 \o <<"other_color.convert_to">> \o r2.trace
               IN IF r2.outcome # "returned"
                  THEN [r2 EXCEPT !.trace = t2, !.self = r1.self]
                  ELSE dispatch_delta_e(mode, r1.value, r2.value, kwargs, t2, r1.self)

\* lab_color_vector = np.array([self.lab_l, self.lab_a, self.lab_b]): the
\* fields as they are, with no check.
delta_e_matrix(self, lab_color_matrix, mode, kwargs) ==
  LET lab_color_vector == self.vals
      m == Lower(mode)
      call(fn, kw) ==
        Returned(FormulaCall(fn, lab_color_vector, lab_color_matrix, kw),
                 <<fn>>, self)
  IN CASE m = m_cie2000 -> call("color_diff_matrix.delta_e_cie2000", {})
       [] m = m_cie1994 -> call("color_diff_matrix.delta_e_cie1994", kwargs)
       [] m = m_cie1976 -> call("color_diff_matrix.delta_e_cie1976", {})
       [] m = m_cmc -> call("color_diff_matrix.delta_e_cmc", kwargs)
       [] OTHER -> Raised("InvalidDeltaEMode", "", PyStr(m), <<>>, self)

(***************************************************************************)
(* The inputs of the model.                                                *)
(***************************************************************************)
\* What a client stores in a coordinate: nothing, a number, a string that
\* is no number, a list.
CoordValues == {PyNone, PyInt(255), PyStr(s_Abc), PyList}

IlluminantValues == {PyStr(s_d50), PyStr(s_D50)}

\* Observers: the two supported angles as a string and as a number, and an
\* unsupported one.
ObserverValues == {PyStr(s_2), PyInt(10), PyStr(s_5)}

\* The fields a client assigns: the coordinates (the first MaxSpectralSet
\* of a spectral color) and the illuminant and observer tags.
AssignableKeys(cls) ==
  {VALUES[cls][i] :
     i \in 1..(IF cls = "SpectralColor" THEN MaxSpectralSet ELSE Len(VALUES[cls]))}
  \cup {"illuminant", "observer"}

AssignableValues(key) ==
  CASE key = "illuminant" -> IlluminantValues
    [] key = "observer" -> ObserverValues
    [] OTHER -> CoordValues

\* The targets asked of convert_to: every kind, the key "lch", a kind in
\* capitals, and a name that is no kind.
KindKeys ==
  {k_spectral, k_xyz, k_xyy, k_lab, k_lchab, k_luv, k_lchuv, k_rgb, k_hsl,
   k_hsv, k_cmy, k_cmyk}

Targets == KindKeys \cup {k_lch, s_LAB, s_foo}

\* The modes asked of delta_e: the four formulas, one of them in capitals,
\* and a name that is no mode.
Modes == {m_cie2000, m_cie1994, m_cie1976, m_cmc, m_CMC, m_ciexyz}

\* Keyword arguments of a delta_e call, by name.
KwargChoices == {{}, {"K_1", "pl", "Kl"}}

\* Every coordinate a number.
AllNumbers(cls) == [i \in 1..Len(VALUES[cls]) |-> PyInt(255)]

\* Constructions for the delta E specification: every coordinate a number,
\* or all but one, with a supported or unsupported observer keyword.
DeltaSelves ==
  {New(cls, [AllNumbers(cls) EXCEPT ![i] = v], kw) :
     cls \in Classes, i \in 1..3, v \in CoordValues,
     kw \in {<<>>} \cup {("observer" :> o) : o \in ObserverValues}}

\* The other_color arguments: three colors, one of them incomplete, and two
\* values that are no color.
Others ==
  {New("LabColor", AllNumbers("LabColor"), <<>>),
   New("RGBColor", AllNumbers("RGBColor"), <<>>),
   New("XYZColor", <<PyInt(255), PyInt(255)>>, ("illuminant" :> PyStr(s_D50))),
   PyNone, PyStr(s_Abc)}

Matrices == {<<>>, <<<<PyInt(255), PyInt(255), PyInt(255)>>>>}

\* The strings given to set_from_rgb_hex: nothing, '#' or '##' followed by
\* three pieces, each two hexadecimal digits, a sign and a digit, a
\* character that is no digit, or a single digit (so that the length is
\* wrong); and strings that are empty, blank, padded with white space, too
\* long, or signed throughout.
HexPrefixes == {<<>>, <<"#">>, <<"#", "#">>}

HexPieces == {<<"F", "F">>, <<"+", "f">>, <<"g", "0">>, <<"f">>}

HexStrings ==
  {p \o r \o g \o b :
     p \in HexPrefixes, r \in HexPieces, g \in HexPieces, b \in HexPieces}
  \cup {<<>>, <<" ">>, <<"#">>,
        <<"#", "F", "F", "0", "0", "0", "0">>,
        <<" ", "#", "f", "f", "0", "0", "0", "0", "\n">>,
        <<"f", " ", "f", " ", "f", " ">>,
        <<"-", "f", "-", "f", "-", "f">>,
        <<"F", "F", "F", "F", "F", "F", "F">>}

(***************************************************************************)
(* The state machine: one color object and the outcome of the latest call  *)
(* on it.                                                                  *)
(***************************************************************************)
NoCall ==
  [op |-> "none", arg |-> PyNone, other |-> PyNone, kwargs |-> {},
   before |-> PyNone, outcome |-> "none",
   err |-> [name |-> "", value |-> PyNone], value |-> PyNone, trace |-> <<>>]

Call(op, arg, other, kwargs, before, r) ==
  [op |-> op, arg |-> arg, other |-> other, kwargs |-> kwargs,
   before |-> before, outcome |-> r.outcome, err |-> r.err,
   value |-> r.value, trace |-> r.trace]

\* A freshly constructed color of any class, with no arguments, with every
\* coordinate given, or with a tag given by keyword.
Init ==
  /\ color \in
       {New(cls, args, kw) :
          cls \in Classes,
          args \in {<<>>, <<PyInt(255), PyInt(255), PyInt(255), PyInt(255)>>},
          kw \in {<<>>, ("illuminant" :> PyStr(s_D50)), ("observer" :> PyInt(10))}}
  /\ ret = NoCall
  /\ calls = <<>>

\* color.key = val
SetAttr ==
  \E key \in AssignableKeys(color.cls) :
    \E val \in AssignableValues(key) :
      /\ color' = SetField(color, key, val)
      /\ ret' = NoCall
      /\ UNCHANGED calls

\* color.convert_to(cs_to)
ConvertTo ==
  \E cs_to \in Targets :
    LET r == convert_to(color, cs_to, {})
    IN /\ color' = r.self
       /\ ret' = Call("convert_to", PyStr(cs_to), PyNone, {}, color, r)
       /\ UNCHANGED calls

\* color.get_rgb_hex()
GetRgbHex ==
  /\ color.cls = "RGBColor"
  /\ LET r == get_rgb_hex(color)
     IN /\ color' = r.self
        /\ ret' = Call("get_rgb_hex", PyNone, PyNone, {}, color, r)
        /\ UNCHANGED calls

Next == SetAttr \/ ConvertTo \/ GetRgbHex

Spec == Init /\ [][Next]_vars

(***************************************************************************)
(* The delta E specification: a constructed color and the delta_e and      *)
(* delta_e_matrix calls on it.                                             *)
(***************************************************************************)
InitDelta ==
  /\ color \in DeltaSelves
  /\ ret = NoCall
  /\ calls = <<>>

\* color.delta_e(other_color, mode, **kwargs)
DeltaE ==
  \E other_color \in Others :
    \E mode \in Modes :
      \E kwargs \in KwargChoices :
        LET r == delta_e(color, other_color, mode, kwargs)
        IN /\ color' = r.self
           /\ ret' = Call("delta_e", PyStr(mode), other_color, kwargs, color, r)
           /\ UNCHANGED calls

\* color.delta_e_matrix(lab_color_matrix, mode, **kwargs)
DeltaEMatrix ==
  /\ color.cls = "LabColor"
  /\ \E lab_color_matrix \in Matrices :
       \E mode \in Modes :
         \E kwargs \in KwargChoices :
           LET r == delta_e_matrix(color, lab_color_matrix, mode, kwargs)
           IN /\ color' = r.self
              /\ ret' = Call("delta_e_matrix", PyStr(mode), lab_color_matrix,
                             kwargs, color, r)
              /\ UNCHANGED calls

NextDelta == DeltaE \/ DeltaEMatrix

SpecDelta == InitDelta /\ [][NextDelta]_vars

(***************************************************************************)
(* The hex specification: an RGB color and the set_from_rgb_hex and        *)
(* get_rgb_hex calls on it.                                                *)
(***************************************************************************)
InitHex ==
  /\ color \in {New("RGBColor", <<>>, <<>>),
                New("RGBColor", AllNumbers("RGBColor"), <<>>)}
  /\ ret = NoCall
  /\ calls = <<>>

\* color.set_from_rgb_hex(hex_str)
SetFromRgbHex ==
  /\ color.cls = "RGBColor"
  /\ \E hex_str \in HexStrings :
       LET r == set_from_rgb_hex(color, hex_str)
       IN /\ color' = r.self
          /\ ret' = Call("set_from_rgb_hex", PyStr(hex_str), PyNone, {}, color, r)
          /\ UNCHANGED calls

NextHex == SetFromRgbHex \/ GetRgbHex

SpecHex == InitHex /\ [][NextHex]_vars

(***************************************************************************)
(* The tag specification: a color with every coordinate a number, its      *)
(* illuminant and working-space tags set by keyword or by assignment, and  *)
(* the calls that read them.                                               *)
(***************************************************************************)
RgbTypeValues == {PyStr(s_srgb), PyStr(s_sRGB)}

\* The illuminants asked of apply_adaptation and get_illuminant_xyz.
TargetIlluminants == {s_d50, s_D50, s_d65}

\* How many adaptations the coordinates of a color have been through.
Adaptations(c) == Cardinality({i \in 1..Len(c.vals[1].s) : c.vals[1].s[i] = "|"})

InitTags ==
  /\ color \in
       {New(cls, AllNumbers(cls), kw) :
          cls \in Classes,
          kw \in {<<>>, ("illuminant" :> PyStr(s_D50)),
                  ("rgb_type" :> PyStr(s_sRGB)), ("observer" :> PyInt(10))}}
  /\ ret = NoCall
  /\ calls = <<>>

\* color.illuminant = val, color.rgb_type = val
SetTag ==
  \/ \E val \in IlluminantValues :
       /\ color' = SetField(color, "illuminant", val)
       /\ ret' = NoCall
       /\ UNCHANGED calls
  \/ /\ color.cls \in RGBFamily
     /\ \E val \in RgbTypeValues :
          /\ color' = SetField(color, "rgb_type", val)
          /\ ret' = NoCall
          /\ UNCHANGED calls

\* color.get_illuminant_xyz(illuminant=illuminant)
GetIlluminantXyz ==
  \E illuminant \in {PyNone} \cup {PyStr(t) : t \in TargetIlluminants} :
    LET r == get_illuminant_xyz(color, PyNone, illuminant)
    IN /\ color' = r.self
       /\ ret' = Call("get_illuminant_xyz", illuminant, PyNone, {}, color, r)
       /\ UNCHANGED calls

\* color.apply_adaptation(target_illuminant)
ApplyAdaptation ==
  /\ color.cls = "XYZColor"
  /\ Adaptations(color) < MaxAdaptations
  /\ \E target_illuminant \in TargetIlluminants :
       LET r == apply_adaptation(color, target_illuminant)
       IN /\ color' = r.self
          /\ ret' = Call("apply_adaptation", PyStr(target_illuminant), PyNone,
                         {}, color, r)
          /\ UNCHANGED calls

NextTags == SetTag \/ ConvertTo \/ GetIlluminantXyz \/ ApplyAdaptation

SpecTags == InitTags /\ [][NextTags]_vars

(***************************************************************************)
(* The concurrent specification: NumThreads threads, each in a convert_to  *)
(* call on the same color.  A thread takes convert_to one statement at a   *)
(* time, and a statement that reads a field and assigns it takes two       *)
(* steps, the read and the write, so that another thread may run in        *)
(* between.  A transform is a pure function of the fields it reads.         *)
(***************************************************************************)
Threads == 1..NumThreads

\* The colors the threads share: an XYZ or an RGB color, complete or with
\* coordinates unset, its observer the default, a number or an unsupported
\* angle, its illuminant assigned in either case.
ConcurrentColors ==
  {SetField(New(cls, args, kw), "illuminant", ill) :
     cls \in {"XYZColor", "RGBColor"},
     args \in {<<PyInt(255), PyInt(255), PyInt(255)>>, <<PyInt(255)>>},
     kw \in {<<>>, ("observer" :> PyInt(10)), ("observer" :> PyStr(s_5))},
     ill \in IlluminantValues}

\* The targets the threads ask for: the color's own kind or a one-step
\* path, a longer path, and a name that is no kind.
ConcurrentTargets == {k_xyz, k_lab, s_foo}

\* cobj before "cobj = self" has run.
NoTerm == [cls |-> "", same |-> TRUE, src |-> PyNone, via |-> <<>>]

\* A call that has not run its first statement.
StartCall(cs_to) ==
  [pc |-> "lookup", cs_to |-> cs_to, tmp |-> PyNone, i |-> 1, cobj |-> NoTerm,
   raced |-> FALSE, outcome |-> "none",
   err |-> [name |-> "", value |-> PyNone], value |-> PyNone]

\* (variant) has_required_values run before __prep_strings
pc_after_validating_first(pc) ==
  CASE pc = "lookup" -> "check_observer"
    [] pc = "check_observer" -> "check_values"
    [] pc = "check_values" -> "load_illuminant"
    [] pc = "load_illuminant" -> "store_illuminant"
    [] pc = "store_illuminant" -> "load_observer"
    [] pc = "load_observer" -> "store_observer"
    [] pc = "store_observer" -> "loop"
    [] OTHER -> "done"

\* The order of the statements of convert_to: the table lookup, the two
\* assignments of __prep_strings, the two checks of has_required_values,
\* the loop over the path.
pc_after(pc) ==
  CASE pc = "lookup" -> "load_illuminant"
    [] pc = "load_illuminant" -> "store_illuminant"
    [] pc = "store_illuminant" -> "load_observer"
    [] pc = "load_observer" -> "store_observer"
    [] pc = "store_observer" -> "check_observer"
    [] pc = "check_observer" -> "check_values"
    [] pc = "check_values" -> "loop"
    [] OTHER -> "done"

\* Some other thread is in the middle of its call.
OtherRunning(t) ==
  \E u \in Threads \ {t} : calls[u].pc \notin {"lookup", "done"}

\* Thread t goes on as c.
Continue(t, c) ==
  calls' = [calls EXCEPT ![t] = [c EXCEPT !.raced = c.raced \/ OtherRunning(t)]]

\* The call of thread t ends as r does.
Finish(t, r) ==
  Continue(t, [calls[t] EXCEPT !.pc = "done", !.outcome = r.outcome,
                               !.err = r.err, !.value = r.value])

InitConcurrent ==
  /\ color \in ConcurrentColors
  /\ ret = [NoCall EXCEPT !.op = "concurrent", !.before = color]
  /\ calls \in [Threads -> {StartCall(cs_to) : cs_to \in ConcurrentTargets}]

\* conversions = self.CONVERSIONS[cs_to.lower()]
Lookup(t) ==
  /\ calls[t].pc = "lookup"
  /\ IF Lower(calls[t].cs_to) \notin DOMAIN CONVERSIONS[color.cls]
     THEN Finish(t, Raised("InvalidConversion", color.cls,
                           PyStr(calls[t].cs_to), <<>>, color))
     ELSE Continue(t, [calls[t] EXCEPT !.pc = pc_after("lookup")])
  /\ UNCHANGED <<color, ret>>

\* self.illuminant = self.illuminant.lower(): the read
LoadIlluminant(t) ==
  /\ calls[t].pc = "load_illuminant"
  /\ Continue(t, [calls[t] EXCEPT !.pc = pc_after("load_illuminant"),
                                  !.tmp = color.illuminant])
  /\ UNCHANGED <<color, ret>>

\* self.illuminant = self.illuminant.lower(): the write
StoreIlluminant(t) ==
  /\ calls[t].pc = "store_illuminant"
  /\ color' = [color EXCEPT !.illuminant = PyStr(Lower(calls[t].tmp.s))]
  /\ Continue(t, [calls[t] EXCEPT !.pc = pc_after("store_illuminant")])
  /\ UNCHANGED ret

\* self.observer = str(self.observer): the read
LoadObserver(t) ==
  /\ calls[t].pc = "load_observer"
  /\ Continue(t, [calls[t] EXCEPT !.pc = pc_after("load_observer"),
                                  !.tmp = color.observer])
  /\ UNCHANGED <<color, ret>>

\* self.observer = str(self.observer): the write
StoreObserver(t) ==
  /\ calls[t].pc = "store_observer"
  /\ color' = [color EXCEPT !.observer = Str(calls[t].tmp)]
  /\ Continue(t, [calls[t] EXCEPT !.pc = pc_after("store_observer")])
  /\ UNCHANGED ret

\* has_required_values: the observer
CheckObserver(t) ==
  /\ calls[t].pc = "check_observer"
  /\ IF ~observer_in_list(color)
     THEN Finish(t, Raised("InvalidObserver", "", color.observer, <<>>, color))
     ELSE Continue(t, [calls[t] EXCEPT !.pc = pc_after("check_observer")])
  /\ UNCHANGED <<color, ret>>

\* has_required_values: the coordinates; then cobj = self
CheckValues(t) ==
  /\ calls[t].pc = "check_values"
  /\ LET chk == check_values(color)
     IN IF chk.outcome # "ok"
        THEN Finish(t, Raised(chk.outcome, chk.name, chk.value, <<>>, color))
        ELSE Continue(t, [calls[t] EXCEPT !.pc = pc_after("check_values")])
  /\ UNCHANGED <<color, ret>>

\* One turn of "for func in conversions", or "return cobj" after the last.
\* cobj is the color itself until a transform has returned a new one.
RunConversion(t) ==
  /\ calls[t].pc = "loop"
  /\ LET c == calls[t]
         conversions == CONVERSIONS[color.cls][Lower(c.cs_to)]
         cobj == IF c.cobj.same THEN SelfTerm(color) ELSE c.cobj
         step == conversion_step(conversions[c.i], cobj, {})
     IN IF c.i > Len(conversions)
        THEN Finish(t, Returned(cobj, <<>>, color))
        ELSE IF step.outcome # "ok"
             THEN Finish(t, Raised(step.outcome, conversions[c.i], PyNone,
                                   <<>>, color))
             ELSE Continue(t, [c EXCEPT !.cobj = step.cobj, !.i = c.i + 1])
  /\ UNCHANGED <<color, ret>>

NextConcurrent ==
  \E t \in Threads :
    \/ Lookup(t)
    \/ LoadIlluminant(t)
    \/ StoreIlluminant(t)
    \/ LoadObserver(t)
    \/ StoreObserver(t)
    \/ CheckObserver(t)
    \/ CheckValues(t)
    \/ RunConversion(t)

SpecConcurrent == InitConcurrent /\ [][NextConcurrent]_vars

(***************************************************************************)
(* What the claims speak of.                                               *)
(***************************************************************************)
\* The key each class is known by.
KindOf ==
  [SpectralColor |-> k_spectral, LabColor |-> k_lab, LCHabColor |-> k_lchab,
   LCHuvColor |-> k_lchuv, LuvColor |-> k_luv, XYZColor |-> k_xyz,
   xyYColor |-> k_xyy, RGBColor |-> k_rgb, HSLColor |-> k_hsl,
   HSVColor |-> k_hsv, CMYColor |-> k_cmy, CMYKColor |-> k_cmyk]

KeyClass(key) ==
  IF key \in KindKeys THEN CHOOSE cls \in Classes : KindOf[cls] = key ELSE "?"

\* The observer angle is 2 or 10, as a string or as a number.
ObserverAngleSupported(c) == Str(c.observer).s \in {s_2, s_10}

\* The observer as the operation reads it: convert_to takes its string
\* form, get_rgb_hex the field as it is.
ObserverAccepted ==
  IF ret.op = "convert_to"
  THEN ObserverAngleSupported(ret.before)
  ELSE ret.before.observer \in {PyStr(s_2), PyStr(s_10)}

IsNumber(v) == FloatOf(v) = "ok"

ValidColor(c) ==
  /\ ObserverAngleSupported(c)
  /\ \A i \in 1..Len(c.vals) : IsNumber(c.vals[i])

HasUnset(c) == \E i \in 1..Len(c.vals) : c.vals[i] = PyNone

FirstUnset(c) ==
  CHOOSE i \in 1..Len(c.vals) :
    c.vals[i] = PyNone /\ \A j \in 1..(i - 1) : c.vals[j] # PyNone

AllPresent(c) == ~HasUnset(c)

HasNonNumber(c) == \E i \in 1..Len(c.vals) : ~IsNumber(c.vals[i])

FirstNonNumber(c) ==
  CHOOSE i \in 1..Len(c.vals) :
    ~IsNumber(c.vals[i]) /\ \A j \in 1..(i - 1) : IsNumber(c.vals[j])

\* No transform function was called.
NoTransform(trace) ==
  \A i \in 1..Len(trace) : trace[i] \notin DOMAIN TransformSig \cup {"None"}

\* The call was convert_to with a target its class has a path to.
ConvertKnownTarget ==
  /\ ret.op = "convert_to"
  /\ Lower(ret.arg.s) \in DOMAIN CONVERSIONS[ret.before.cls]

\* The call validates the color: convert_to with a known target, or
\* get_rgb_hex.
ValidatingCall == ConvertKnownTarget \/ ret.op = "get_rgb_hex"

\* A path is a chain from cls to the class its key names.
ChainWellFormed(cls, key) ==
  LET path == CONVERSIONS[cls][key]
  IN IF path = <<"None">> THEN KindOf[cls] = key
     ELSE /\ \A i \in 1..Len(path) : path[i] \in DOMAIN TransformSig
          /\ TransformSig[path[1]].in = cls
          /\ \A i \in 1..(Len(path) - 1) :
               TransformSig[path[i + 1]].in = TransformSig[path[i]].out
          /\ TransformSig[path[Len(path)]].out = KeyClass(key)

ValidModes == {m_cie2000, m_cie1994, m_cie1976, m_cmc}

\* The formula of a module that bears the name of a mode.
FormulaNamed(module, m) ==
  CASE m = m_cie2000 -> module \o ".delta_e_cie2000"
    [] m = m_cie1994 -> module \o ".delta_e_cie1994"
    [] m = m_cie1976 -> module \o ".delta_e_cie1976"
    [] m = m_cmc -> module \o ".delta_e_cmc"
    [] OTHER -> "?"

\* lab is the Lab color obtained from c: a Lab color computed from c's
\* coordinates along c's path to Lab (c itself when c is a Lab color).
IsLabOf(lab, c) ==
  /\ lab.cls = "LabColor"
  /\ lab.src.cls = c.cls
  /\ lab.src.vals = c.vals
  /\ IF c.cls = "LabColor" THEN lab.via = <<>>
     ELSE /\ Len(lab.via) = Len(CONVERSIONS[c.cls][k_lab])
          /\ \A i \in 1..Len(lab.via) :
               lab.via[i].fn = CONVERSIONS[c.cls][k_lab][i]

\* The calls of a delta_e that returned: self converted, then other_color
\* converted, then one formula and nothing after it.
SelfThenOtherThenFormula(trace, fn) ==
  /\ Len(trace) >= 3
  /\ trace[1] = "self.convert_to"
  /\ \E j \in 2..(Len(trace) - 1) :
       /\ trace[j] = "other_color.convert_to"
       /\ \A i \in 2..(j - 1) : trace[i] # "other_color.convert_to"
  /\ trace[Len(trace)] = fn
  /\ \A i \in 1..(Len(trace) - 1) : trace[i] # fn

(***************************************************************************)
(* The claims.                                                             *)
(***************************************************************************)
\* C1: for every source kind and every supported target kind the source's
\* CONVERSIONS table has an entry under the target's name, so convert_to
\* never raises InvalidConversion for a supported target.
C1_EveryKindHasPath ==
  (ret.op = "convert_to" /\ Lower(ret.arg.s) \in KindKeys)
    => /\ Lower(ret.arg.s) \in DOMAIN CONVERSIONS[ret.before.cls]
       /\ ret.outcome # "InvalidConversion"

\* C2: every conversion path is a well-formed chain from the source kind to
\* the kind it is keyed by, so convert_to of a valid color to a kind its
\* table has runs the path to its end and returns a color of that kind.
C2_PathsWellFormed ==
  (/\ ConvertKnownTarget
   /\ Lower(ret.arg.s) \in KindKeys
   /\ ValidColor(ret.before))
    => /\ ChainWellFormed(ret.before.cls, Lower(ret.arg.s))
       /\ ret.outcome = "returned"
       /\ ret.value.cls = KeyClass(Lower(ret.arg.s))

\* C3: convert_to of a valid color to its own kind calls no transform and
\* returns a color of the same kind with the input's coordinates.
C3_IdentityConversion ==
  (/\ ret.op = "convert_to"
   /\ Lower(ret.arg.s) = KindOf[ret.before.cls]
   /\ ValidColor(ret.before))
    => /\ ret.outcome = "returned"
       /\ NoTransform(ret.trace)
       /\ ret.value.cls = ret.before.cls
       /\ ret.value.src.vals = ret.before.vals
       /\ ret.value.via = <<>>
       /\ color.vals = ret.before.vals

C3_IdentityWitness ==
  /\ ret.op = "convert_to"
  /\ Lower(ret.arg.s) = KindOf[ret.before.cls]
  /\ ValidColor(ret.before)
  /\ ret.before.cls = "CMYKColor"
  /\ ret.outcome = "returned"

\* C4: convert_to raises InvalidConversion, carrying the class name and the
\* target as given, exactly when the lowercased target has no entry in the
\* class's table; it then has neither prepared nor validated the color nor
\* called a transform, whatever the color holds.
C4_UnknownTargetRejectedFirst ==
  ret.op = "convert_to"
    => /\ ret.outcome = "InvalidConversion"
            <=> Lower(ret.arg.s) \notin DOMAIN CONVERSIONS[ret.before.cls]
       /\ ret.outcome = "InvalidConversion"
            => /\ ret.err = [name |-> ret.before.cls, value |-> ret.arg]
               /\ ret.trace = <<>>
               /\ color = ret.before

C4_UnknownTargetWitness ==
  /\ ret.op = "convert_to"
  /\ ret.outcome = "InvalidConversion"
  /\ HasUnset(ret.before)
  /\ ~ObserverAngleSupported(ret.before)
  /\ ret.before.illuminant = PyStr(s_D50)

C6_MissingValueFirstUnset ==
  (ValidatingCall /\ ObserverAccepted /\ HasUnset(ret.before))
    => /\ ret.outcome = "MissingValue"
       /\ ret.err.name = VALUES[ret.before.cls][FirstUnset(ret.before)]
       /\ NoTransform(ret.trace)

\* C6 (amended): the same, provided every coordinate declared before the
\* first unset one is a number.
C6_MissingValueAfterNumbers ==
  (/\ ValidatingCall
   /\ ObserverAccepted
   /\ HasUnset(ret.before)
   /\ \A j \in 1..(FirstUnset(ret.before) - 1) : IsNumber(ret.before.vals[j]))
    => /\ ret.outcome = "MissingValue"
       /\ ret.err.name = VALUES[ret.before.cls][FirstUnset(ret.before)]
       /\ NoTransform(ret.trace)

C6_MissingValueWitness ==
  /\ ret.op = "get_rgb_hex"
  /\ ret.outcome = "MissingValue"
  /\ ret.err.name = "rgb_g"
  /\ ret.before.vals[3] = PyNone

\* C7: a color whose observer angle is supported and whose coordinates are
\* all present, one of them not interpretable as a number (a string that is
\* no number, or a list), makes convert_to raise InvalidValue naming the
\* first such coordinate and its value, with no transform called.
C7_InvalidValueFirstNonNumber ==
  (/\ ConvertKnownTarget
   /\ ObserverAngleSupported(ret.before)
   /\ AllPresent(ret.before)
   /\ HasNonNumber(ret.before))
    => /\ ret.outcome = "InvalidValue"
       /\ ret.err.name = VALUES[ret.before.cls][FirstNonNumber(ret.before)]
       /\ ret.err.value = ret.before.vals[FirstNonNumber(ret.before)]
       /\ NoTransform(ret.trace)

\* C8: convert_to and get_rgb_hex raise InvalidObserver exactly when the
\* observer angle is neither 2 nor 10, given as a number or as a string,
\* and do so before looking at any coordinate.
C8_ObserverCheckedAlike ==
  ValidatingCall
    => (ret.outcome = "InvalidObserver" <=> ~ObserverAngleSupported(ret.before))

\* C9: for two colors and a mode that is none of cie1976, cie1994, cie2000,
\* cmc (in any case), delta_e raises InvalidDeltaEMode naming the mode
\* before either color is converted to Lab; delta_e_matrix raises it before
\* any distance is computed.
C9_InvalidModeRejectedFirst ==
  /\ (/\ ret.op = "delta_e"
      /\ IsColor(ret.other)
      /\ Lower(ret.arg.s) \notin ValidModes)
       => /\ ret.outcome = "InvalidDeltaEMode"
          /\ ret.err.value \in {ret.arg, PyStr(Lower(ret.arg.s))}
          /\ ret.trace = <<>>
  /\ (ret.op = "delta_e_matrix" /\ Lower(ret.arg.s) \notin ValidModes)
       => /\ ret.outcome = "InvalidDeltaEMode"
          /\ ret.trace = <<>>

\* C10: delta_e with an other_color that is no color raises InvalidArgument
\* before self is prepared, validated or converted and before the mode is
\* looked at, for every mode and every state of self.
C10_NonColorRejectedFirst ==
  (ret.op = "delta_e" /\ ~IsColor(ret.other))
    => /\ ret.outcome = "InvalidArgument"
       /\ ret.err.name = "other_color"
       /\ ret.trace = <<>>
       /\ color = ret.before

C10_NonColorWitness ==
  /\ ret.op = "delta_e"
  /\ ~IsColor(ret.other)
  /\ ret.outcome = "InvalidArgument"
  /\ HasUnset(ret.before)
  /\ ret.before.observer = PyInt(10)
  /\ Lower(ret.arg.s) \notin ValidModes

C12_ParametersReachFormula ==
  (/\ ret.op \in {"delta_e", "delta_e_matrix"}
   /\ ret.outcome = "returned"
   /\ Lower(ret.arg.s) \in {m_cie1994, m_cmc, m_cie2000})
    => ret.value.kw = ret.kwargs

\* C14: delta_e_matrix on a Lab color that has a coordinate unset or not a
\* number, or an unsupported observer, raises the validation error delta_e
\* raises for it (MissingValue, InvalidValue, InvalidObserver) and calls no
\* formula.
C14_MatrixValidatesSelf ==
  (ret.op = "delta_e_matrix" /\ ~ValidColor(ret.before))
    => /\ ret.outcome \in {"MissingValue", "InvalidValue", "InvalidObserver"}
       /\ ret.outcome = has_required_values(prep_strings(ret.before)).outcome
       /\ ret.trace = <<>>

\* Six hexadecimal digits, with or without one '#' before them.
SixHexDigits(cs) ==
  LET body == IF cs # <<>> /\ cs[1] = "#" THEN Tail(cs) ELSE cs
  IN Len(body) = 6 /\ \A i \in 1..6 : HexValue(body[i]) >= 0

\* The byte the i-th pair of digits of such a string denotes.
ByteOf(cs, i) ==
  LET body == IF cs[1] = "#" THEN Tail(cs) ELSE cs
  IN PyInt(16 * HexValue(body[2 * i - 1]) + HexValue(body[2 * i]))

\* C13: set_from_rgb_hex succeeds exactly on the strings of six hexadecimal
\* digits with or without one leading '#', and then sets the three channels
\* to the bytes the digit pairs denote; on every other string, the empty
\* one and six characters with a sign among them included, it raises the
\* invalid-format ValueError and leaves the three channels as they were.
C13_HexAcceptedExactly ==
  ret.op = "set_from_rgb_hex"
    => IF SixHexDigits(ret.arg.s)
       THEN /\ ret.outcome = "returned"
            /\ color.vals = [i \in 1..3 |-> ByteOf(ret.arg.s, i)]
       ELSE /\ ret.outcome = "ValueError"
            /\ color.vals = ret.before.vals

\* C15: apply_adaptation leaves the three coordinates and the illuminant as
\* they were whenever the target names the color's illuminant, compared
\* without regard to case; otherwise it replaces the coordinates by the
\* adapted ones, sets the illuminant to the lowercased target and leaves
\* the observer as it was.
C15_AdaptationOnlyWhenDifferent ==
  ret.op = "apply_adaptation"
    => IF Lower(ret.before.illuminant.s) = Lower(ret.arg.s)
       THEN /\ color.vals = ret.before.vals
            /\ color.illuminant = ret.before.illuminant
            /\ ret.trace = <<>>
       ELSE /\ color.vals
                 = apply_XYZ_transformation(
                     ret.before.vals[1], ret.before.vals[2], ret.before.vals[3],
                     ret.before.illuminant.s, ret.arg.s)
            /\ color.illuminant = PyStr(Lower(ret.arg.s))
            /\ color.observer = ret.before.observer

\* A tag is lowercase: a string that lower() leaves as it is.
IsLowercase(v) == v.ty = "str" /\ Lower(v.s) = v.s

\* A transform was called.
TransformCalled(trace) == \E i \in 1..Len(trace) : trace[i] \in DOMAIN TransformSig

\* C16: however the tags were set, by constructor keyword or by assignment,
\* and in whatever case, the illuminant and the working-space tag of the
\* color are lowercase when convert_to calls its first transform, and the
\* illuminant get_illuminant_xyz looks up in the table is lowercase.
C16_TagsSeenLowercase ==
  /\ (ret.op = "convert_to" /\ TransformCalled(ret.trace))
       => /\ IsLowercase(color.illuminant)
          /\ color.rgb_type # NoAttr => IsLowercase(color.rgb_type)
  /\ (ret.op = "get_illuminant_xyz" /\ ret.arg = PyNone /\ ret.trace # <<>>)
       => /\ ret.outcome = "returned" => IsLowercase(ret.value.illuminant)
          /\ ret.outcome = "InvalidIlluminant" => IsLowercase(ret.err.value)

\* Every thread has finished its call.
AllDone == DOMAIN calls # {} /\ \A t \in DOMAIN calls : calls[t].pc = "done"

\* The orders in which the threads' calls can be run one after the other.
Orders ==
  {order \in [Threads -> Threads] :
     \A i, j \in Threads : order[i] = order[j] => i = j}

RECURSIVE InTurn(_, _, _)
\* The color after the calls order[i], order[i+1], ... were run on obj one
\* after the other.
InTurn(obj, order, i) ==
  IF i > NumThreads THEN obj
  ELSE InTurn(convert_to(obj, calls[order[i]].cs_to, {}).self, order, i + 1)

\* C17: transforms being pure functions, in every interleaving of the steps
\* of two or more convert_to calls on the same color each call returns or
\* raises what it returns or raises when it runs alone on that color, and
\* when all have finished the color is as it is after the calls were run
\* one after the other, in any order.
C17_ConcurrentAsAlone ==
  /\ \A t \in DOMAIN calls :
       calls[t].pc = "done"
         => LET alone == convert_to(ret.before, calls[t].cs_to, {})
            IN /\ calls[t].outcome = alone.outcome
               /\ calls[t].err = alone.err
               /\ calls[t].outcome = "returned" => calls[t].value = alone.value
  /\ AllDone => \A order \in Orders : color = InTurn(ret.before, order, 1)

C17_ConcurrentAsAloneWitness ==
  /\ AllDone
  /\ \A t \in DOMAIN calls : calls[t].raced
  /\ ret.before.illuminant = PyStr(s_D50)
  /\ ret.before.observer = PyInt(10)
  /\ color # ret.before
  /\ \E t \in DOMAIN calls :
       calls[t].outcome = "returned" /\ Len(calls[t].value.via) > 1
  /\ \E t \in DOMAIN calls :
       calls[t].outcome = "returned" /\ Len(calls[t].value.via) = 1

====
